---- MODULE Spec2Model ----
(***************************************************************************)
(* A model of package zipserver (src/pkg.go): Handler, its index of        *)
(* Deflate-compressed files, the fast path that streams raw compressed     *)
(* bytes through a pooled buffer, the fallback to http.FileServer, and     *)
(* seekableFS / seekableFile.                                              *)
(*                                                                         *)
(* A string (a file name, a URL path) is a sequence of tokens: the         *)
(* separator or a name token [stem, ext].  A byte is 0 (a byte no text holds,    *)
(* such as NUL) or 1 (a printable byte); compressed bytes are 2 and up.    *)
(* The collaborators of the package that are not part of it (archive/zip,  *)
(* net/http, mime, sync.Pool) are modelled by what they do at the places   *)
(* the package calls them.                                                 *)
(***************************************************************************)
EXTENDS Integers, Sequences, FiniteSets, TLC

\* ---------------------------------------------------------------- bounds
\* the most files in an archive
MaxFiles == 2
\* the sniffing prefix, 512 bytes in the source, scaled down
SniffLen == 2
\* the pooled buffer's size, 32*1024 bytes in the source, scaled down
BufSize == 2

\* ------------------------------------------------------ names and types
Slash == [stem |-> "/", ext |-> ""]
IndexHTML == [stem |-> "index", ext |-> ".html"]
LicenseTxt == [stem |-> "LICENSE", ext |-> ".txt"]
Unknown == [stem |-> "unknown", ext |-> ""]
Names == {IndexHTML, LicenseTxt, Unknown}

Deflate == "Deflate"
Store == "Store"
Methods == {Store, Deflate}

MethodGet == "GET"
MethodHead == "HEAD"

SeekStart == "SeekStart"
SeekCurrent == "SeekCurrent"
SeekEnd == "SeekEnd"

OctetStream == "application/octet-stream"
TextPlain == "text/plain; charset=utf-8"
TextHTML == "text/html; charset=utf-8"

Min(a, b) == IF a < b THEN a ELSE b

\* path.Ext: the extension of the final element of a path
Ext(p) == IF p = <<>> THEN "" ELSE p[Len(p)].ext

\* mime.TypeByExtension: the static extension table
TypeByExtension(e) ==
    CASE e = ".txt" -> TextPlain
      [] e = ".html" -> TextHTML
      [] OTHER -> ""

\* http.DetectContentType over a prefix: text unless a non-text byte is in it
DetectContentType(b) ==
    IF \A i \in 1..Len(b) : b[i] = 1 THEN TextPlain ELSE OctetStream

\* strings.TrimPrefix(s, "/"): one leading separator is stripped
TrimPrefix(s) == IF s # <<>> /\ s[1] = Slash THEN Tail(s) ELSE s

\* strings.Contains(Accept-Encoding, "deflate"), over the header's tokens
Contains(s, tok) == \E i \in 1..Len(s) : s[i] = tok

\* --------------------------------------------------------- the archive
\* The Deflate codec: a length byte, then every byte shifted.
DeflateBytes(s) == <<Len(s) + 4>> \o [i \in 1..Len(s) |-> s[i] + 2]

\* Its inverse; a stream whose length byte does not fit is corrupt.
Inflate(c) ==
    IF c # <<>> /\ c[1] = Len(c) + 3
    THEN [i \in 1..(Len(c) - 1) |-> c[i + 1] - 2]
    ELSE <<-1>>

Contents == {<<1, 1, 0>>, <<0, 1>>}
ModTimes == {"Mon, 02 Jan 2006 15:04:05 GMT"}

\* zip.File: Name, Method, the uncompressed content, Modified
Entry == [name : {<<n>> : n \in Names}, method : Methods,
          content : Contents, modified : ModTimes]

Archives == UNION {[1..n -> Entry] : n \in 0..MaxFiles}

\* the bytes OpenRaw yields: the file's data as stored in the archive
Raw(zf) == IF zf.method = Deflate THEN DeflateBytes(zf.content) ELSE zf.content

\* zip.File.CompressedSize64
CompressedSize64(zf) == Len(Raw(zf))

VARIABLES
    z,      \* the *zip.Reader: the sequence z.File
    m,      \* Handler's map of deflate-compressed files, name to index
    slots,  \* the requests the host may run concurrently
    conn,   \* per slot: the request, the response writer, the handler's locals
    pool,   \* bufPool: the buffers now in the pool
    bufs,   \* the contents of every buffer
    sf,     \* a seekableFile under direct use (SpecSeek)
    sfOp,   \* the last operation on sf and what it returned
    got,    \* the bytes read from sf since it was opened or last rewound
    stale   \* a rewind of sf failed to re-open the file

vars == <<z, m, slots, conn, pool, bufs, sf, sfOp, got, stale>>

\* ------------------------------------------------ Handler: the index
MapSet(f, k, v) == [x \in (DOMAIN f) \cup {k} |-> IF x = k THEN v ELSE f[x]]

RECURSIVE IndexLoop(_, _, _)
IndexLoop(zr, i, mm) ==
    IF i > Len(zr) THEN mm
    ELSE IF zr[i].method # Deflate THEN IndexLoop(zr, i + 1, mm)
    ELSE IndexLoop(zr, i + 1, MapSet(mm, zr[i].name, i))

\* the index with the first file of a name kept, not the last
BuildIndexFirst(zr) ==
    [k \in {zr[i].name : i \in {j \in 1..Len(zr) : zr[j].method = Deflate}} |->
        CHOOSE i \in 1..Len(zr) :
            /\ zr[i].name = k /\ zr[i].method = Deflate
            /\ \A j \in 1..(i - 1) : ~(zr[j].name = k /\ zr[j].method = Deflate)]

\* for i := range z.File { if Method != Deflate { continue }; m[Name] = i }
BuildIndex(zr) == IndexLoop(zr, 1, << >>)

\* ------------------------------------- archive/zip as a file system
\* zip.Reader.Open resolves a name to the first file of that name; 0 if none.
OpenLookup(name) ==
    IF \E i \in 1..Len(z) : z[i].name = name
    THEN CHOOSE i \in 1..Len(z) :
            z[i].name = name /\ \A j \in 1..(i - 1) : z[j].name # name
    ELSE 0

\* zip.Reader.Open(name): a forward-only decompressing stream, or an error.
ZipOpen(name, ok) ==
    IF OpenLookup(name) = 0 \/ ~ok
    THEN [err |-> TRUE, file |-> [idx |-> 0, pos |-> 0, closed |-> TRUE]]
    ELSE [err |-> FALSE,
          file |-> [idx |-> OpenLookup(name), pos |-> 0, closed |-> FALSE]]

\* Read on a file of the archive.  After Close a Deflate stream refuses to
\* read; a Store stream has a no-op Close and goes on where it was.
FileRead(h, n) ==
    IF h.closed /\ z[h.idx].method = Deflate
    THEN [data |-> <<>>, err |-> "closed", file |-> h]
    ELSE LET c == z[h.idx].content
             k == Min(n, Len(c) - h.pos)
         IN  [data |-> SubSeq(c, h.pos + 1, h.pos + k),
              err |-> IF k = 0 THEN "EOF" ELSE "nil",
              file |-> [h EXCEPT !.pos = h.pos + k]]

\* Close on a file of the archive.
FileClose(h, ok) == IF ok THEN [h EXCEPT !.closed = TRUE] ELSE h

\* ------------------------------------------ seekableFS, seekableFile
NoFile == [File |-> [idx |-> 0, pos |-> 0, closed |-> TRUE], name |-> <<>>]

\* seekableFS.Open
SeekableFSOpen(name, ok) ==
    LET o == ZipOpen(name, ok)
    IN  IF o.err THEN [err |-> TRUE, f |-> NoFile]
        ELSE [err |-> FALSE, f |-> [File |-> o.file, name |-> name]]

\* seekableFile.Seek with the rewind left out: the stream stays where it is
SeekNoReopen(f, offset, whence, closeOk, openOk) ==
    IF offset # 0 \/ whence # SeekStart \/ ~closeOk \/ ~openOk
    THEN [f |-> f, n |-> 0, err |-> TRUE]
    ELSE [f |-> f, n |-> 0, err |-> FALSE]

\* seekableFile.Seek
Seek(f, offset, whence, closeOk, openOk) ==
    IF offset # 0 \/ whence # SeekStart
    THEN [f |-> f, n |-> 0, err |-> TRUE]
    ELSE IF ~closeOk
    THEN [f |-> [f EXCEPT !.File = FileClose(f.File, FALSE)], n |-> 0, err |-> TRUE]
    ELSE LET closed == [f EXCEPT !.File = FileClose(f.File, TRUE)]
             o == ZipOpen(f.name, openOk)
         IN  IF o.err THEN [f |-> closed, n |-> 0, err |-> TRUE]
             ELSE [f |-> [closed EXCEPT !.File = o.file], n |-> 0, err |-> FALSE]

\* ------------------------------------------------- net/http: requests
Ranges == {<<>>, <<0>>}
AcceptEncodings == {<<>>, <<"gzip", "deflate", "br">>}
Paths == {<<Slash>>} \cup {<<Slash, n>> : n \in Names}

\* *http.Request: Method, the Range header (absent, or bytes=k-), the
\* Accept-Encoding header, URL.Path
Request == [method : {MethodGet, MethodHead}, range : Ranges,
            ae : AcceptEncodings, path : Paths]

\* the I/O failures a request may meet: OpenRaw, the Open of
\* conjureContentType, the file server's Open, and the Close and the
\* re-Open of seekableFile.Seek
FaultKinds == {"raw", "ctopen", "open", "close", "reopen"}

\* one failure at a time, or a file that neither way of opening can open
FaultSets == {{}, {"raw", "open"}} \cup {{k} : k \in FaultKinds}

\* http.ResponseWriter: the status, the headers this package or the file
\* server sets, and the body written so far
EmptyW == [status |-> "", Vary |-> <<>>, AcceptRanges |-> "", ContentType |-> "",
           ContentLength |-> -1, ContentEncoding |-> "", LastModified |-> "",
           body |-> <<>>]

\* http.Error: the status and a plain-text message (its text left out)
ErrorW(w, code) == [w EXCEPT !.status = code, !.ContentType = TextPlain,
                             !.body = <<>>]

\* ------------------------------------- net/http: FileServer(http.FS(..))
\* http.FS(fsys).Open: through seekableFS (seek0) or through the zip.Reader
FSOpen(seek0, name, ok) ==
    IF seek0 THEN SeekableFSOpen(name, ok)
    ELSE LET o == ZipOpen(name, ok)
         IN  [err |-> o.err, f |-> [File |-> o.file, name |-> name]]

\* Seek on a file of http.FS: a file with no Seek method cannot seek
FSSeek(seek0, f, offset, flt) ==
    IF seek0 THEN Seek(f, offset, SeekStart, "close" \notin flt, "reopen" \notin flt)
    ELSE [f |-> f, n |-> 0, err |-> TRUE]

\* the failures a call of FSSeek met
SeekFaults(seek0, offset, flt) ==
    IF ~seek0 \/ offset # 0 THEN {}
    ELSE IF "close" \in flt THEN {"close"}
    ELSE {"reopen"} \cap flt

\* the rest of a stream, at most n bytes of it (io.CopyN)
CopyN(h, n) ==
    LET c == z[h.idx].content
    IN  SubSeq(c, h.pos + 1, Min(Len(c), h.pos + n))

\* http.serveContent: Last-Modified; the type by extension, else sniffed
\* from a probe prefix followed by a seek to the start; a range is served
\* by seeking to its start; then Accept-Ranges: bytes, Content-Length, the
\* status and (unless HEAD) the bytes
ServeContent(seek0, rq, w, name, f, flt) ==
    LET zf == z[f.File.idx]
        w1 == [w EXCEPT !.LastModified = zf.modified]
        ct0 == TypeByExtension(Ext(name))
        sniff == ct0 = ""
        probe == FileRead(f.File, SniffLen)
        sk == FSSeek(seek0, [f EXCEPT !.File = probe.file], 0, flt)
        f1 == IF sniff THEN sk.f ELSE f
        io1 == IF sniff THEN SeekFaults(seek0, 0, flt) ELSE {}
        w2 == [w1 EXCEPT !.ContentType =
                  IF sniff THEN DetectContentType(probe.data) ELSE ct0]
        size == Len(zf.content)
        start == IF rq.range = <<>> THEN 0 ELSE rq.range[1]
        sk2 == FSSeek(seek0, f1, start, flt)
        f2 == IF rq.range = <<>> THEN f1 ELSE sk2.f
        io2 == IF rq.range = <<>> THEN io1
               ELSE io1 \cup SeekFaults(seek0, start, flt)
        sendSize == size - start
        w3 == [w2 EXCEPT !.AcceptRanges = "bytes",
                         !.ContentLength = sendSize,
                         !.status = IF rq.range = <<>> THEN "200" ELSE "206",
                         !.body = IF rq.method = MethodHead THEN <<>>
                                  ELSE CopyN(f2.File, sendSize)]
    IN  IF sniff /\ sk.err THEN [w |-> ErrorW(w1, "500"), io |-> io1]
        ELSE IF rq.range # <<>> /\ (start >= size \/ sk2.err)
        THEN [w |-> ErrorW(w2, "416"), io |-> io2]
        ELSE [w |-> w3, io |-> io2]

\* http.FileServer over one view of the archive: /index.html is redirected
\* to ./, the root serves its index.html or else lists the directory (which
\* a seekableFile cannot do), a missing name is 404
FileServer(seek0, rq, w, flt) ==
    LET p == rq.path
        name == Tail(p)
        o == FSOpen(seek0, IF name = <<>> THEN <<IndexHTML>> ELSE name,
                    "open" \notin flt)
        missing == OpenLookup(IF name = <<>> THEN <<IndexHTML>> ELSE name) = 0
        io0 == IF missing THEN {} ELSE {"open"} \cap flt
    IN  IF p[Len(p)] = IndexHTML
        THEN [w |-> [w EXCEPT !.status = "301"], io |-> {}]
        ELSE IF name = <<>> /\ o.err
        THEN [w |-> IF seek0 THEN ErrorW(w, "500")
                    ELSE [w EXCEPT !.status = "200", !.ContentType = TextHTML],
              io |-> io0]
        ELSE IF o.err
        THEN [w |-> ErrorW(w, IF missing THEN "404" ELSE "500"), io |-> io0]
        ELSE LET s == ServeContent(seek0, rq, w,
                                   IF name = <<>> THEN <<IndexHTML>> ELSE name,
                                   o.f, flt)
             IN  [w |-> s.w, io |-> io0 \cup s.io]

\* ------------------------------------------------ Handler: a request
\* fallbackServe as it was before seekableFS: always the plain file server
FallbackServePlain(rq, w, flt) ==
    LET s == FileServer(FALSE, rq, w, flt)
    IN  [w |-> s.w, io |-> s.io, via |-> "plain", fbw |-> w]

\* fallbackServe: a path whose type the extension table does not give goes
\* to the file server over seekableFS, any other to the plain file server
FallbackServe(rq, w, flt) ==
    LET seek0 == TypeByExtension(Ext(rq.path)) = ""
        s == FileServer(seek0, rq, w, flt)
    IN  [w |-> s.w, io |-> s.io, via |-> IF seek0 THEN "seek0" ELSE "plain",
         fbw |-> w]

\* the first test with the Range header forgotten
IneligibleNoRange(rq) ==
    \/ rq.method # MethodGet
    \/ ~Contains(rq.ae, "deflate")

\* the first test of the handler: such a request is not for the fast path
Ineligible(rq) ==
    \/ rq.method # MethodGet
    \/ rq.range # <<>>
    \/ ~Contains(rq.ae, "deflate")

\* the key with no default document for the root
LookupKeyNoIndex(rq) == TrimPrefix(rq.path)

\* key := strings.TrimPrefix(r.URL.Path, "/"); "" becomes index.html
LookupKey(rq) ==
    LET key == TrimPrefix(rq.path)
    IN  IF key = <<>> THEN <<IndexHTML>> ELSE key

\* conjureContentType that sniffs whatever the name
conjureSniffOnly(zf, ok) ==
    IF ~ok THEN OctetStream
    ELSE DetectContentType(SubSeq(zf.content, 1, Min(SniffLen, Len(zf.content))))

\* conjureContentType
conjureContentType(zf, ok) ==
    IF TypeByExtension(Ext(zf.name)) # "" THEN TypeByExtension(Ext(zf.name))
    ELSE IF ~ok THEN OctetStream
    ELSE DetectContentType(SubSeq(zf.content, 1, Min(SniffLen, Len(zf.content))))

\* the four headers of the fast path
FastHeaders(w, zf, ok) ==
    [w EXCEPT !.ContentType = conjureContentType(zf, ok),
              !.ContentLength = CompressedSize64(zf),
              !.ContentEncoding = "deflate",
              !.LastModified = zf.modified]

\* w.Header().Add("Vary", ..); w.Header().Set("Accept-Ranges", "none")
RouterHeaders(w) ==
    [w EXCEPT !.Vary = Append(@, "Accept-Encoding"), !.AcceptRanges = "none"]

\* the fallback called after the fast path's headers were set
OnRawErrorCommitted(rq, w, zf, flt) ==
    FallbackServe(rq, [w EXCEPT !.ContentLength = CompressedSize64(zf),
                                !.ContentEncoding = "deflate"], flt)

\* what the handler does when OpenRaw fails
OnRawError(rq, w, zf, flt) == FallbackServe(rq, w, flt)

\* The handler up to the streaming copy.  fbw is the response writer as it
\* was when the file server was called, fb the number of such calls.
ServeHTTP(rq, flt) ==
    LET w0 == RouterHeaders(EmptyW)
        key == LookupKey(rq)
        fb(s, io) == [fast |-> FALSE, i |-> 0, w |-> s.w, via |-> s.via,
                      io |-> io \cup s.io, fb |-> 1, fbw |-> s.fbw]
    IN  IF DOMAIN m = {}
        THEN LET s == FileServer(FALSE, rq, EmptyW, flt)
             IN  [fast |-> FALSE, i |-> 0, w |-> s.w, via |-> "plain",
                  io |-> s.io, fb |-> 1, fbw |-> EmptyW]
        ELSE IF Ineligible(rq) \/ key \notin DOMAIN m
        THEN fb(FallbackServe(rq, w0, flt), {})
        ELSE IF "raw" \in flt
        THEN fb(OnRawError(rq, w0, z[m[key]], flt), {"raw"})
        ELSE [fast |-> TRUE, i |-> m[key],
              w |-> FastHeaders(w0, z[m[key]], "ctopen" \notin flt),
              via |-> "fast",
              io |-> IF TypeByExtension(Ext(z[m[key]].name)) = ""
                     THEN {"ctopen"} \cap flt ELSE {},
              fb |-> 0, fbw |-> EmptyW]

\* ------------------------------------------------------------ bufPool
Slots == {1, 2}

\* bufPool.New: make([]byte, 32*1024)
New == [i \in 1..BufSize |-> 0]

\* the pool after Get has handed out buffer b, with b left in the pool
PoolGetShared(p, b) == p

\* the pool after bufPool.Get has handed out buffer b
PoolGet(p, b) == p \ {b}

\* the pool after bufPool.Put(b)
PoolPut(p, b) == p \cup {b}

\* ------------------------------------------------------------- states
IdleConn == [pc |-> "idle",
             req |-> [method |-> MethodGet, range |-> <<>>, ae |-> <<>>,
                      path |-> <<Slash>>],
             w |-> EmptyW, via |-> "", io |-> {}, i |-> 0, pos |-> 0,
             buf |-> 0, nr |-> 0, fb |-> 0, fbw |-> EmptyW,
             gets |-> 0, puts |-> 0]

\* the archive of the package's tests, LICENSE.txt and unknown, both
\* deflated; here with contents that differ
TestArchive ==
    [i \in 1..2 |-> [name |-> <<IF i = 1 THEN LicenseTxt ELSE Unknown>>,
                     method |-> Deflate,
                     content |-> IF i = 1 THEN <<1, 1, 0>> ELSE <<0, 1>>,
                     modified |-> "Mon, 02 Jan 2006 15:04:05 GMT"]]

InitCommon ==
    /\ m = BuildIndex(z)
    /\ conn = [r \in Slots |-> IdleConn]
    /\ pool = {}
    /\ bufs = << >>
    /\ sf = NoFile
    /\ sfOp = [op |-> "none"]
    /\ got = <<>>
    /\ stale = FALSE

\* Handler(z) over any archive, serving one request at a time
Init ==
    /\ z \in Archives
    /\ slots = {1}
    /\ InitCommon

\* Handler(z) over the tests' archive, serving requests concurrently
InitPool ==
    /\ z = TestArchive
    /\ slots = Slots
    /\ InitCommon

\* a seekableFS over any archive, its files used directly
InitSeek ==
    /\ z \in Archives
    /\ slots = {}
    /\ InitCommon

\* ------------------------------------------------------------ actions
\* The handler from its first line to b := bufPool.Get(): the two router
\* headers, the routing, a whole fallback response, or the fast path's
\* headers and a buffer taken from the pool (or a new one).
Serve(r) ==
    /\ conn[r].pc = "idle"
    /\ \E d \in {[rq |-> rq] @@ ServeHTTP(rq, flt) :
                    rq \in Request, flt \in FaultSets} :
        LET base == [IdleConn EXCEPT !.req = d.rq, !.w = d.w, !.via = d.via,
                                     !.io = d.io, !.i = d.i, !.fb = d.fb,
                                     !.fbw = d.fbw]
        IN  IF ~d.fast
            THEN /\ conn' = [conn EXCEPT ![r] = [base EXCEPT !.pc = "done"]]
                 /\ UNCHANGED <<pool, bufs>>
            ELSE \/ \E b \in pool :
                      /\ pool' = PoolGet(pool, b)
                      /\ conn' = [conn EXCEPT ![r] =
                                    [base EXCEPT !.pc = "copy", !.buf = b, !.gets = 1]]
                      /\ UNCHANGED bufs
                 \/ /\ Cardinality(DOMAIN bufs) < Cardinality(slots)
                    /\ LET b == Cardinality(DOMAIN bufs) + 1
                       IN  /\ bufs' = [x \in (DOMAIN bufs) \cup {b} |->
                                          IF x = b THEN New ELSE bufs[x]]
                           /\ conn' = [conn EXCEPT ![r] =
                                         [base EXCEPT !.pc = "copy", !.buf = b,
                                                      !.gets = 1]]
                    /\ UNCHANGED pool
    /\ UNCHANGED <<z, m, slots, sf, sfOp, got, stale>>

\* io.CopyBuffer, src.Read(buf): the next bytes of the raw stream overwrite
\* the start of the buffer; at the end of the stream the copy is over
CopyRead(r) ==
    /\ conn[r].pc = "copy"
    /\ LET c == conn[r]
           raw == Raw(z[c.i])
           n == Min(BufSize, Len(raw) - c.pos)
       IN  IF n = 0
           THEN /\ conn' = [conn EXCEPT ![r].pc = "put"]
                /\ UNCHANGED bufs
           ELSE /\ bufs' = [bufs EXCEPT ![c.buf] =
                              [k \in 1..BufSize |->
                                 IF k <= n THEN raw[c.pos + k] ELSE @[k]]]
                /\ conn' = [conn EXCEPT ![r].pc = "write", ![r].nr = n,
                                        ![r].pos = c.pos + n]
    /\ UNCHANGED <<z, m, slots, pool, sf, sfOp, got, stale>>

\* io.CopyBuffer, dst.Write(buf[0:nr]): the first write commits status 200
CopyWrite(r) ==
    /\ conn[r].pc = "write"
    /\ conn' = [conn EXCEPT ![r].pc = "copy",
                            ![r].w.status = "200",
                            ![r].w.body = @ \o SubSeq(bufs[conn[r].buf], 1, conn[r].nr)]
    /\ UNCHANGED <<z, m, slots, pool, bufs, sf, sfOp, got, stale>>

\* io.CopyBuffer, a failed read of the raw stream: the copy returns
CopyReadError(r) ==
    /\ conn[r].pc = "copy"
    /\ conn[r].pos < Len(Raw(z[conn[r].i]))
    /\ conn' = [conn EXCEPT ![r].pc = "put", ![r].io = @ \cup {"copy"}]
    /\ UNCHANGED <<z, m, slots, pool, bufs, sf, sfOp, got, stale>>

\* io.CopyBuffer, a failed write to the client, k < nr bytes of the chunk
\* having gone out: the copy returns
CopyWriteError(r) ==
    /\ conn[r].pc = "write"
    /\ \E k \in 0..(conn[r].nr - 1) :
        conn' = [conn EXCEPT ![r].pc = "put", ![r].io = @ \cup {"copy"},
                             ![r].w.status = "200",
                             ![r].w.body = @ \o SubSeq(bufs[conn[r].buf], 1, k)]
    /\ UNCHANGED <<z, m, slots, pool, bufs, sf, sfOp, got, stale>>

\* bufPool.Put(b), and the handler returns
PutBuf(r) ==
    /\ conn[r].pc = "put"
    /\ pool' = PoolPut(pool, conn[r].buf)
    /\ conn' = [conn EXCEPT ![r].pc = "done", ![r].buf = 0, ![r].puts = @ + 1,
                            ![r].w.status = "200"]
    /\ UNCHANGED <<z, m, slots, bufs, sf, sfOp, got, stale>>

\* the handler has returned and the host has sent the response: the slot
\* is free for the next request
Finish(r) ==
    /\ conn[r].pc = "done"
    /\ conn' = [conn EXCEPT ![r] = IdleConn]
    /\ UNCHANGED <<z, m, slots, pool, bufs, sf, sfOp, got, stale>>

Next ==
    \/ \E r \in slots : Serve(r)
    \/ \E r \in slots : CopyRead(r)
    \/ \E r \in slots : CopyWrite(r)
    \/ \E r \in slots : CopyReadError(r)
    \/ \E r \in slots : CopyWriteError(r)
    \/ \E r \in slots : PutBuf(r)
    \/ \E r \in slots : Finish(r)

Spec == Init /\ [][Next]_vars

SpecPool == InitPool /\ [][Next]_vars

\* ------------------------------------- a seekableFile used directly
Whences == {SeekStart, SeekCurrent, SeekEnd}

\* seekableFS.Open(name)
SFOpen ==
    /\ sf = NoFile
    /\ \E n \in Names, ok \in BOOLEAN :
        LET o == SeekableFSOpen(<<n>>, ok)
        IN  /\ ~o.err
            /\ sf' = o.f
            /\ sfOp' = [op |-> "open", err |-> FALSE, before |-> sf]
    /\ got' = <<>>
    /\ stale' = FALSE
    /\ UNCHANGED <<z, m, slots, conn, pool, bufs>>

\* f.Read(b) with len(b) = n: the Read of the wrapped file
SFRead ==
    /\ sf # NoFile
    /\ \E n \in 1..SniffLen :
        LET rd == FileRead(sf.File, n)
        IN  /\ sf' = [sf EXCEPT !.File = rd.file]
            /\ sfOp' = [op |-> "read", err |-> rd.err # "nil", data |-> rd.data,
                        stale |-> stale, before |-> sf]
            /\ got' = got \o rd.data
    /\ UNCHANGED <<z, m, slots, conn, pool, bufs, stale>>

\* f.Seek(offset, whence); Close or the re-Open may fail
SFSeek ==
    /\ sf # NoFile
    /\ \E offset \in 0..1, whence \in Whences, closeOk \in BOOLEAN, openOk \in BOOLEAN :
        LET sk == Seek(sf, offset, whence, closeOk, openOk)
            rewind == offset = 0 /\ whence = SeekStart
        IN  /\ rewind \/ (closeOk /\ openOk)
            /\ sf' = sk.f
            /\ sfOp' = [op |-> "seek", err |-> sk.err, n |-> sk.n, offset |-> offset,
                        whence |-> whence, closeOk |-> closeOk, openOk |-> openOk,
                        before |-> sf]
            /\ got' = IF sk.err THEN got ELSE <<>>
            /\ stale' = IF rewind /\ closeOk /\ ~openOk THEN TRUE
                        ELSE IF sk.err THEN stale ELSE FALSE
    /\ UNCHANGED <<z, m, slots, conn, pool, bufs>>

\* f.Close(): the Close of the wrapped file
SFClose ==
    /\ sf # NoFile
    /\ ~sf.File.closed
    /\ sf' = [sf EXCEPT !.File = FileClose(sf.File, TRUE)]
    /\ sfOp' = [op |-> "close", err |-> FALSE, before |-> sf]
    /\ UNCHANGED <<z, m, slots, conn, pool, bufs, got, stale>>

NextSeek == SFOpen \/ SFRead \/ SFSeek \/ SFClose

SpecSeek == InitSeek /\ [][NextSeek]_vars

\* ============================================================ claims
Done(r) == r \in slots /\ conn[r].pc = "done"

\* the extension table, as the claims know it
KnownType(name) ==
    IF name[Len(name)].ext = ".txt" THEN TextPlain
    ELSE IF name[Len(name)].ext = ".html" THEN TextHTML ELSE ""

\* the request is one the fast path takes: GET, no Range, deflate accepted
FastRequest(rq) ==
    /\ rq.method = MethodGet
    /\ rq.range = <<>>
    /\ \E i \in 1..Len(rq.ae) : rq.ae[i] = "deflate"

\* the name a request asks for: the path less its leading separator, and
\* index.html for the root
KeyOf(rq) == IF rq.path = <<Slash>> THEN <<IndexHTML>> ELSE Tail(rq.path)

\* the indices of the Deflate files named k
DeflateIdx(k) == {i \in 1..Len(z) : z[i].name = k /\ z[i].method = Deflate}

IsPrefix(a, b) == Len(a) <= Len(b) /\ a = SubSeq(b, 1, Len(a))

\* C1: every response of the handler Handler returns, for every archive
\* (one with no Deflate file included) and on either path, carries
\* Vary: Accept-Encoding and Accept-Ranges: none.
C1_RouterHeadersAlways ==
    \A r \in slots :
        Done(r) => /\ conn[r].w.Vary = <<"Accept-Encoding">>
                   /\ conn[r].w.AcceptRanges = "none"

\* C2: a GET with no Range that accepts deflate, for a name in the index
\* (index.html for the root), whose OpenRaw succeeds and whose copy meets
\* no I/O error, is answered with Content-Encoding: deflate, Content-Length
\* the compressed size, and a body that is the file's compressed bytes and
\* inflates to the file's content.
C2_FastPathBody ==
    \A r \in slots :
        (/\ Done(r)
         /\ FastRequest(conn[r].req)
         /\ DeflateIdx(KeyOf(conn[r].req)) # {}
         /\ "raw" \notin conn[r].io
         /\ "copy" \notin conn[r].io)
        => \E i \in DeflateIdx(KeyOf(conn[r].req)) :
            /\ conn[r].w.ContentEncoding = "deflate"
            /\ conn[r].w.ContentLength = Len(DeflateBytes(z[i].content))
            /\ conn[r].w.body = DeflateBytes(z[i].content)
            /\ Inflate(conn[r].w.body) = z[i].content
            /\ conn[r].w.status = "200"

C2_Witness ==
    \E r \in slots :
        /\ Done(r)
        /\ conn[r].req.path = <<Slash>>
        /\ conn[r].w.ContentEncoding = "deflate"
        /\ conn[r].io = {}
        /\ Len(conn[r].w.body) > BufSize

\* a response with the two headers of the router left out
Mask(w) == [w EXCEPT !.Vary = <<>>, !.AcceptRanges = ""]

\* C3: the router's response to a request that is not a GET, or has a
\* Range header, or does not accept deflate, is the response fallbackServe
\* gives the same request, but for the router's Vary and Accept-Ranges; it
\* never has Content-Encoding: deflate nor the compressed bytes.
C3_IneligibleIsFallback ==
    \A r \in slots :
        (Done(r) /\ DOMAIN m # {} /\ ~FastRequest(conn[r].req))
        => /\ Mask(conn[r].w) =
                Mask(FallbackServe(conn[r].req, EmptyW, conn[r].io).w)
           /\ conn[r].w.Vary = <<"Accept-Encoding">>
           /\ conn[r].w.ContentEncoding = ""
           /\ conn[r].via # "fast"
           /\ \A i \in 1..Len(z) :
                z[i].method = Deflate => conn[r].w.body # Raw(z[i])

C3_Witness ==
    \E r \in slots :
        /\ Done(r)
        /\ DOMAIN m # {}
        /\ conn[r].req.range # <<>>
        /\ conn[r].req.method = MethodGet
        /\ Contains(conn[r].req.ae, "deflate")
        /\ KeyOf(conn[r].req) \in DOMAIN m
        /\ conn[r].w.status = "206"

\* C4: on the fast path the Content-Type of a file whose extension the
\* table knows is the table's type, whatever the content; otherwise it is
\* the type sniffed from the first SniffLen (or fewer) decompressed bytes,
\* and application/octet-stream when the file cannot be opened.
C4_ContentType ==
    \A r \in slots :
        conn[r].via = "fast" =>
            LET zf == z[conn[r].i]
                n == IF Len(zf.content) < SniffLen THEN Len(zf.content) ELSE SniffLen
                prefix == [k \in 1..n |-> zf.content[k]]
            IN  conn[r].w.ContentType =
                    IF KnownType(zf.name) # "" THEN KnownType(zf.name)
                    ELSE IF "ctopen" \in conn[r].io THEN OctetStream
                    ELSE IF \E k \in 1..n : prefix[k] = 0 THEN OctetStream
                    ELSE TextPlain

C4_Witness ==
    \E r \in slots :
        /\ conn[r].via = "fast"
        /\ z[conn[r].i].name = <<Unknown>>
        /\ z[conn[r].i].content = <<1, 1, 0>>
        /\ conn[r].io = {}
        /\ conn[r].w.ContentType = TextPlain

\* the request was answered by fallbackServe
FallbackServed(r) == Done(r) /\ DOMAIN m # {} /\ conn[r].fb = 1

\* the request is a GET for a file of the archive whose name has no
\* extension the table knows
SniffedGet(r) ==
    /\ conn[r].req.method = MethodGet
    /\ OpenLookup(Tail(conn[r].req.path)) # 0
    /\ KnownType(conn[r].req.path) = ""

\* C5 as stated: a fallback-served GET for an existing file with no known
\* extension goes to the seekable view and every other fallback request to
\* the plain view, and the former is answered 200 with the file's whole
\* decompressed content.
C5_AsStated ==
    \A r \in slots :
        FallbackServed(r) =>
            IF SniffedGet(r)
            THEN /\ conn[r].via = "seek0"
                 /\ conn[r].io = {} =>
                        /\ conn[r].w.status = "200"
                        /\ conn[r].w.body = z[OpenLookup(Tail(conn[r].req.path))].content
            ELSE conn[r].via = "plain"

\* C5 amended: a request fallbackServe answers goes to the seekable view
\* exactly when its path has no extension the table knows, whatever its
\* method and whether or not the file exists; there a GET with no Range
\* header for an existing file, no I/O failing, is answered 200 with the
\* sniffed type and a body that is the file's whole decompressed content.
C5_SeekableFallback ==
    \A r \in slots :
        FallbackServed(r) =>
            /\ conn[r].via = "seek0" <=> KnownType(conn[r].req.path) = ""
            /\ conn[r].via = "plain" <=> KnownType(conn[r].req.path) # ""
            /\ (SniffedGet(r) /\ conn[r].req.range = <<>> /\ conn[r].io \subseteq {"raw"})
               => LET c == z[OpenLookup(Tail(conn[r].req.path))].content
                  IN  /\ conn[r].w.status = "200"
                      /\ conn[r].w.body = c
                      /\ conn[r].w.ContentLength = Len(c)
                      /\ conn[r].w.ContentEncoding = ""

C5_Witness ==
    \E r \in slots :
        /\ FallbackServed(r)
        /\ SniffedGet(r)
        /\ conn[r].req.range = <<>>
        /\ conn[r].io = {}
        /\ conn[r].via = "seek0"
        /\ Len(conn[r].w.body) > SniffLen

\* a response writer no fast-path header and no body byte has touched
Uncommitted(w) ==
    /\ w.ContentType = ""
    /\ w.ContentLength = -1
    /\ w.ContentEncoding = ""
    /\ w.LastModified = ""
    /\ w.body = <<>>

\* C8: a request calls the file server at most once, and only with a
\* response writer that has no fast-path header and no body byte; a missing
\* key and a failed OpenRaw go to it; once the copy has begun, a failure
\* ends the request with what was written, with no second attempt and no
\* fallback.
C8_FallbackBeforeCommit ==
    \A r \in slots :
        /\ conn[r].fb \in {0, 1}
        /\ conn[r].fb = 1 => Uncommitted(conn[r].fbw) /\ conn[r].via # "fast"
        /\ conn[r].via = "fast" => conn[r].fb = 0
        /\ (Done(r) /\ "raw" \in conn[r].io) => conn[r].fb = 1
        /\ (Done(r) /\ DOMAIN m # {} /\ FastRequest(conn[r].req)
              /\ DeflateIdx(KeyOf(conn[r].req)) = {}) => conn[r].fb = 1
        /\ "copy" \in conn[r].io =>
              /\ conn[r].fb = 0
              /\ conn[r].via = "fast"
              /\ conn[r].pc \in {"put", "done"}
              /\ IsPrefix(conn[r].w.body, Raw(z[conn[r].i]))
              /\ Len(conn[r].w.body) < Len(Raw(z[conn[r].i]))

C8_Witness ==
    \E r \in slots :
        /\ Done(r)
        /\ "raw" \in conn[r].io
        /\ conn[r].w.status = "200"
        /\ conn[r].w.ContentEncoding = ""

\* C10 as stated: a name in the index resolves to the last file of that
\* name in the archive.
C10_LastSeenEntry ==
    \A k \in DOMAIN m : \A j \in 1..Len(z) : z[j].name = k => j <= m[k]

\* C10 amended: the keys of the index are exactly the names of the Deflate
\* files, each key resolves to a Deflate file of that name, a name that
\* several Deflate files share resolves to the last of them, and no request
\* changes the index.
C10_Index ==
    /\ DOMAIN m = {z[i].name : i \in {j \in 1..Len(z) : z[j].method = Deflate}}
    /\ \A k \in DOMAIN m :
        /\ m[k] \in DeflateIdx(k)
        /\ \A j \in DeflateIdx(k) : j <= m[k]

C10_Witness ==
    /\ \E k \in DOMAIN m :
         \E j \in 1..Len(z) : j > m[k] /\ z[j].name = k /\ z[j].method = Store
    /\ \E r \in slots : Done(r) /\ conn[r].via = "fast"

\* C7: between its Get and its Put a fast-path request holds one buffer
\* that is not in the pool and that no other request holds; the buffer is
\* put back exactly once, whether the copy succeeds or fails; a request off
\* the fast path takes none; and a body holds bytes of its own file only.
C7_BufferExclusive ==
    \A r \in slots :
        /\ conn[r].pc \in {"copy", "write", "put"} =>
              /\ conn[r].via = "fast"
              /\ conn[r].buf \in DOMAIN bufs
              /\ conn[r].buf \notin pool
              /\ \A q \in slots \ {r} : conn[q].buf # conn[r].buf
              /\ conn[r].gets = 1
              /\ conn[r].puts = 0
        /\ conn[r].pc \in {"idle", "done"} => conn[r].buf = 0
        /\ (Done(r) /\ conn[r].via = "fast") =>
              /\ conn[r].gets = 1
              /\ conn[r].puts = 1
              /\ "copy" \notin conn[r].io => conn[r].w.body = Raw(z[conn[r].i])
        /\ conn[r].via # "fast" => conn[r].gets = 0 /\ conn[r].puts = 0
        /\ conn[r].via = "fast" => IsPrefix(conn[r].w.body, Raw(z[conn[r].i]))

C7_Witness ==
    \E r \in slots, q \in slots :
        /\ r # q
        /\ conn[r].pc = "write"
        /\ conn[q].pc = "write"
        /\ conn[r].i # conn[q].i
        /\ conn[r].w.body # <<>>
        /\ conn[q].w.body # <<>>
        /\ pool = {}

\* the content of the file sf wraps
SFContent == z[sf.File.idx].content

\* C6: on a seekableFile, Seek(0, SeekStart) after any reads succeeds when
\* neither Close nor the re-Open fails, returns 0 and leaves an open stream
\* at the start, so that what is read from then on is the file's content
\* from its first byte; any other Seek fails and leaves the wrapped stream
\* and its position as they were.
C6_SeekToStart ==
    /\ sfOp.op = "seek" =>
         IF sfOp.offset = 0 /\ sfOp.whence = SeekStart
         THEN (sfOp.closeOk /\ sfOp.openOk) =>
                /\ ~sfOp.err
                /\ sfOp.n = 0
                /\ sf.File.pos = 0
                /\ ~sf.File.closed
                /\ sf.File.idx = sfOp.before.File.idx
         ELSE sfOp.err /\ sf = sfOp.before
    /\ sf # NoFile => IsPrefix(got, SFContent)
    /\ (sfOp.op = "read" /\ ~sfOp.err) =>
         /\ sfOp.data # <<>>
         /\ got = SubSeq(SFContent, 1, sf.File.pos)

C6_Witness ==
    /\ sfOp.op = "seek"
    /\ ~sfOp.err
    /\ sfOp.before.File.pos = Len(SFContent)
    /\ sfOp.before.File.pos > SniffLen
    /\ sf.File.pos = 0

\* C9: a Seek(0, SeekStart) whose re-Open fails returns an error and leaves
\* the wrapped file closed, and every Read after it fails, returning no
\* byte of the stale stream.
C9_StaleReadFails ==
    /\ (sfOp.op = "seek" /\ sfOp.offset = 0 /\ sfOp.whence = SeekStart
          /\ sfOp.closeOk /\ ~sfOp.openOk)
       => sfOp.err /\ sf.File.closed
    /\ (sfOp.op = "read" /\ sfOp.stale) => sfOp.err /\ sfOp.data = <<>>

====
